---- MODULE Spec2Model ----
(***************************************************************************)
(* Model of contrib/generate.py: the FIT SDK -> JSON export utility.       *)
(* One run of main() is a walk through Steps; the filesystem (the output   *)
(* directory and the five output files) is the only state that survives a  *)
(* run.  Everything the environment decides (what the SDK path contains,   *)
(* whether a module executes, whether an I/O call fails) is chosen at the  *)
(* step that observes it.                                                  *)
(***************************************************************************)
EXTENDS Integers, Sequences, FiniteSets, TLC

VARIABLES
    pc,              \* the statement of main() about to run, or "exited"
    path,            \* args.path, by what it names on disk
    pretty,          \* args.pretty
    profile_module,  \* result of find_module(args.path, "profile")
    fit_module,      \* result of find_module(args.path, "fit")
    fit_objects,     \* dict returned by extract_fit_objects
    success,         \* the aggregate flag of the fit-file loop
    idx,             \* position of the loop in fit_files.items()
    outDir,          \* the output directory on disk
    files,           \* content of each output file on disk
    attempted,       \* files write_json_file was called for in this run
    failed,          \* files for which write_json_file returned False
    lastWrite,       \* the most recent call of write_json_file
    stderr,          \* diagnostics printed by the tool in this run
    exitCode,        \* process exit status
    raised,          \* exception that escaped main(), if any
    dirCreated,      \* the run created the output directory
    run              \* number of the current run

vars == <<pc, path, pretty, profile_module, fit_module, fit_objects, success,
          idx, outDir, files, attempted, failed, lastWrite, stderr, exitCode,
          raised, dirCreated, run>>

(* ---------------------------- bounds ----------------------------------- *)

MaxRuns == 2

(* ---------------------------- values ----------------------------------- *)

\* Python values a module attribute can hold: None, a JSON-serializable
\* object, or an object json.dumps has no encoding for.
None == "None"
Obj == "obj"
Unserializable == "unserializable"
Values == {None, Obj, Unserializable}

NoFile == "<no file>"
Truncated == ""
NotExited == -1

FitNames ==
    <<"BASE_TYPE", "FIELD_TYPE_TO_BASE_TYPE", "BASE_TYPE_DEFINITIONS",
      "NUMERIC_FIELD_TYPES">>

FitFileNames ==
    <<"base_type.json", "field_type_to_base_type.json",
      "base_type_definitions.json", "numeric_field_types.json">>

ProfileFile == "profile.json"

FitNameSet == {FitNames[i] : i \in 1..Len(FitNames)}
FitFileSet == {FitFileNames[i] : i \in 1..Len(FitFileNames)}
OutputFiles == {ProfileFile} \cup FitFileSet

\* What args.path can name.
PathKinds == {"missing", "dir", "file.py", "file.unknown_suffix"}

\* A module namespace is a dict from the names it defines to their values.
Namespaces(names, vals) == UNION {[S -> vals] : S \in SUBSET names}

EmptyDict == [n \in {} |-> None]

Unset == [state |-> "unset", ns |-> EmptyDict]

IOOutcomes == {"ok", "mkdir_fails", "open_fails", "write_fails"}

(* ---------------------------- find_module ------------------------------ *)

\* "None", "module", or "raise" when exec_module raises.
find_module(p, moduleFileExists, execOk) ==
    IF p = "missing" THEN "None"
    ELSE IF p = "dir" /\ ~moduleFileExists THEN "None"
    ELSE IF p = "file.unknown_suffix" THEN "None"
    ELSE IF execOk THEN "module"
    ELSE "raise"

hasattr(module, name) == module.state = "module" /\ name \in DOMAIN module.ns

(* ------------------------- extract_fit_objects ------------------------- *)

extract_fit_objects(module) ==
    [n \in {k \in FitNameSet : hasattr(module, k)} |-> module.ns[n]]

(* --------------------------- write_json_file --------------------------- *)

\* json.dumps(data) / json.dumps(data, indent=2)
json_dumps(data, indent) ==
    IF data = Unserializable THEN [exc |-> "TypeError", str |-> ""]
    ELSE IF data = None THEN [exc |-> "none", str |-> "null"]
    ELSE IF indent THEN [exc |-> "none", str |-> "{\n  \"a\": 1\n}"]
    ELSE [exc |-> "none", str |-> "{\"a\": 1}"]

\* IOError is an alias of OSError.
IOError == "OSError"

CaughtNoIOError == {"TypeError", "ValueError"}

\* The except clause of write_json_file.
Caught == {"TypeError", "ValueError", IOError}

\* The try body: the exception it ends with, the file content it leaves and
\* whether the parent directory exists afterwards.
write_body(data, indent, io, old, dir) ==
    LET js == json_dumps(data, indent) IN
    IF js.exc # "none" THEN [exc |-> js.exc, content |-> old, dir |-> dir]
    ELSE IF io = "mkdir_fails" THEN [exc |-> IOError, content |-> old, dir |-> dir]
    ELSE IF io = "open_fails" THEN [exc |-> IOError, content |-> old, dir |-> "dir"]
    ELSE IF io = "write_fails" THEN [exc |-> IOError, content |-> Truncated, dir |-> "dir"]
    ELSE [exc |-> "none", content |-> js.str, dir |-> "dir"]

write_json_file(data, indent, io, old, dir) ==
    LET b == write_body(data, indent, io, old, dir) IN
    IF b.exc = "none" THEN [ret |-> "True", exc |-> "none", content |-> b.content, dir |-> b.dir]
    ELSE IF b.exc \in Caught THEN [ret |-> "False", exc |-> "none", content |-> b.content, dir |-> b.dir]
    ELSE [ret |-> "raise", exc |-> b.exc, content |-> b.content, dir |-> b.dir]

NoWrite == [called |-> FALSE, file |-> "", data |-> None, io |-> "ok", ret |-> "True"]

(* -------------------------------- main --------------------------------- *)

StepsDirFirst ==
    <<"mkdir", "find_profile", "check_profile", "find_fit", "extract",
      "write_profile", "write_fit", "finish">>

StepsProfileFirst ==
    <<"find_profile", "check_profile", "mkdir", "write_profile", "find_fit",
      "extract", "write_fit", "finish">>

\* The statements of main() in program order.
Steps ==
    <<"find_profile", "check_profile", "find_fit", "extract", "mkdir",
      "write_profile", "write_fit", "finish">>

NextStep(s) == Steps[(CHOOSE i \in 1..Len(Steps) : Steps[i] = s) + 1]

dict_get(d, k) == IF k \in DOMAIN d THEN d[k] ELSE None

\* fit_files.items(), in insertion order.
fit_files(objects) ==
    [i \in 1..Len(FitNames) |->
        [filename |-> FitFileNames[i], data |-> dict_get(objects, FitNames[i])]]

should_write_always(data) == TRUE

\* "if data is not None"
should_write(data) == data # None

after_profile_write_continue(ok) == NextStep("write_profile")

\* "if not write_json_file(...): sys.exit(1)"
after_profile_write(ok) == IF ok THEN NextStep("write_profile") ELSE "exited"

next_success_ignored(s, ok) == s

\* "else: success = False"
next_success(s, ok) == IF ok THEN s ELSE FALSE

Exit(code, exc) ==
    /\ pc' = "exited"
    /\ exitCode' = code
    /\ raised' = exc

Continue(step) ==
    /\ pc' = NextStep(step)
    /\ UNCHANGED <<exitCode, raised>>

RunInit ==
    /\ pc = Steps[1]
    /\ path \in PathKinds
    /\ pretty \in BOOLEAN
    /\ profile_module = Unset
    /\ fit_module = Unset
    /\ fit_objects = EmptyDict
    /\ success = TRUE
    /\ idx = 1
    /\ attempted = {}
    /\ failed = {}
    /\ lastWrite = NoWrite
    /\ stderr = {}
    /\ exitCode = NotExited
    /\ raised = "none"
    /\ dirCreated = FALSE

Init ==
    /\ RunInit
    /\ outDir \in {"absent", "dir"}
    /\ files = [f \in OutputFiles |-> NoFile]
    /\ run = 1

\* profile_module = find_module(args.path, "profile"), the values of the
\* module's names drawn from vals
FindProfile(vals) ==
    /\ pc = "find_profile"
    /\ \E exists \in BOOLEAN, execOk \in BOOLEAN, ns \in Namespaces({"Profile"}, vals) :
        LET r == find_module(path, exists, execOk) IN
        IF r = "raise" THEN
            /\ profile_module' = [state |-> "raised", ns |-> EmptyDict]
            /\ Exit(1, "SyntaxError")
            /\ UNCHANGED stderr
        ELSE IF r = "None" THEN
            /\ profile_module' = [state |-> "None", ns |-> EmptyDict]
            /\ stderr' = stderr \cup
                 {<<"Error: Could not find or load profile module at", path>>}
            /\ Exit(1, "none")
        ELSE
            /\ profile_module' = [state |-> "module", ns |-> ns]
            /\ Continue("find_profile")
            /\ UNCHANGED stderr
    /\ UNCHANGED <<path, pretty, fit_module, fit_objects, success, idx, outDir,
                   files, attempted, failed, lastWrite, dirCreated, run>>

\* if not hasattr(profile_module, "Profile")
CheckProfile ==
    /\ pc = "check_profile"
    /\ IF ~hasattr(profile_module, "Profile") THEN
            /\ stderr' = stderr \cup
                 {<<"Error: The profile module does not contain a 'Profile' object", "">>}
            /\ Exit(1, "none")
       ELSE
            /\ Continue("check_profile")
            /\ UNCHANGED stderr
    /\ UNCHANGED <<path, pretty, profile_module, fit_module, fit_objects,
                   success, idx, outDir, files, attempted, failed, lastWrite,
                   dirCreated, run>>

\* fit_module = find_module(args.path, "fit").  When args.path names a file,
\* this loads the file the profile module was loaded from.
FindFit(vals) ==
    /\ pc = "find_fit"
    /\ \E exists \in BOOLEAN, execOk \in BOOLEAN, ns \in Namespaces(FitNameSet, vals) :
        /\ (path = "file.py" /\ profile_module.state = "module") => execOk
        /\ LET r == find_module(path, exists, execOk) IN
           IF r = "raise" THEN
               /\ fit_module' = [state |-> "raised", ns |-> EmptyDict]
               /\ Exit(1, "SyntaxError")
               /\ UNCHANGED stderr
           ELSE IF r = "None" THEN
               /\ fit_module' = [state |-> "None", ns |-> EmptyDict]
               /\ stderr' = stderr \cup
                    {<<"Error: Could not find or load fit module at", path>>}
               /\ Exit(1, "none")
           ELSE
               /\ fit_module' = [state |-> "module", ns |-> ns]
               /\ Continue("find_fit")
               /\ UNCHANGED stderr
    /\ UNCHANGED <<path, pretty, profile_module, fit_objects, success, idx,
                   outDir, files, attempted, failed, lastWrite, dirCreated, run>>

\* fit_objects = extract_fit_objects(fit_module); if not fit_objects: exit
Extract ==
    /\ pc = "extract"
    /\ fit_objects' = extract_fit_objects(fit_module)
    /\ IF DOMAIN fit_objects' = {} THEN
            /\ stderr' = stderr \cup
                 {<<"Error: Could not extract required objects from fit module", "">>}
            /\ Exit(1, "none")
       ELSE
            /\ Continue("extract")
            /\ UNCHANGED stderr
    /\ UNCHANGED <<path, pretty, profile_module, fit_module, success, idx,
                   outDir, files, attempted, failed, lastWrite, dirCreated, run>>

\* output_dir.mkdir(parents=True, exist_ok=True), outside any try
MkDir ==
    /\ pc = "mkdir"
    /\ \E ok \in BOOLEAN :
        /\ outDir = "dir" => ok
        /\ IF ok THEN
               /\ outDir' = "dir"
               /\ dirCreated' = (dirCreated \/ outDir = "absent")
               /\ Continue("mkdir")
           ELSE
               /\ Exit(1, IOError)
               /\ UNCHANGED <<outDir, dirCreated>>
    /\ UNCHANGED <<path, pretty, profile_module, fit_module, fit_objects,
                   success, idx, files, attempted, failed, lastWrite, stderr, run>>

\* The call write_json_file(data, output_dir / f, args.pretty) and its
\* effects on the disk and on stderr.
CallWrite(f, data, io, w) ==
    /\ files' = [files EXCEPT ![f] = w.content]
    /\ outDir' = w.dir
    /\ dirCreated' = (dirCreated \/ (outDir = "absent" /\ w.dir = "dir"))
    /\ attempted' = attempted \cup {f}
    /\ failed' = IF w.ret = "False" THEN failed \cup {f} ELSE failed
    /\ lastWrite' = [called |-> TRUE, file |-> f, data |-> data, io |-> io,
                     ret |-> w.ret]
    /\ stderr' = IF w.ret = "False"
                 THEN stderr \cup {<<"Error: Failed to write", f>>}
                 ELSE stderr

\* if not write_json_file(profile_module.Profile, profile_path, args.pretty)
WriteProfile(ios) ==
    /\ pc = "write_profile"
    /\ IF ~hasattr(profile_module, "Profile") THEN
            /\ Exit(1, "AttributeError")
            /\ UNCHANGED <<files, outDir, dirCreated, attempted, failed,
                           lastWrite, stderr>>
       ELSE
            \E io \in ios :
                LET data == profile_module.ns["Profile"]
                    w == write_json_file(data, pretty, io, files[ProfileFile], outDir)
                IN  /\ CallWrite(ProfileFile, data, io, w)
                    /\ IF w.ret = "raise" THEN Exit(1, w.exc)
                       ELSE IF after_profile_write(w.ret = "True") = "exited"
                       THEN Exit(1, "none")
                       ELSE /\ pc' = after_profile_write(w.ret = "True")
                            /\ UNCHANGED <<exitCode, raised>>
    /\ UNCHANGED <<path, pretty, profile_module, fit_module, fit_objects,
                   success, idx, run>>

\* One iteration of "for filename, data in fit_files.items()".
WriteFit(ios) ==
    /\ pc = "write_fit"
    /\ idx <= Len(FitNames)
    /\ LET item == fit_files(fit_objects)[idx] IN
       IF should_write(item.data) THEN
            \E io \in ios :
                LET w == write_json_file(item.data, pretty, io,
                                         files[item.filename], outDir)
                IN  /\ CallWrite(item.filename, item.data, io, w)
                    /\ IF w.ret = "raise" THEN
                           /\ Exit(1, w.exc)
                           /\ UNCHANGED <<success, idx>>
                       ELSE
                           /\ success' = next_success(success, w.ret = "True")
                           /\ idx' = idx + 1
                           /\ UNCHANGED <<pc, exitCode, raised>>
       ELSE
            /\ stderr' = stderr \cup
                 {<<"Warning: Could not find data for", item.filename>>}
            /\ idx' = idx + 1
            /\ UNCHANGED <<pc, exitCode, raised, success, files, outDir,
                           dirCreated, attempted, failed, lastWrite>>
    /\ UNCHANGED <<path, pretty, profile_module, fit_module, fit_objects, run>>

\* The loop is exhausted: pass on to "if success: ... else: sys.exit(1)".
LoopDone ==
    /\ pc = "write_fit"
    /\ idx > Len(FitNames)
    /\ Continue("write_fit")
    /\ UNCHANGED <<path, pretty, profile_module, fit_module, fit_objects,
                   success, idx, outDir, files, attempted, failed, lastWrite,
                   stderr, dirCreated, run>>

\* if success: print(...) else: sys.exit(1)
Finish ==
    /\ pc = "finish"
    /\ Exit(IF success THEN 0 ELSE 1, "none")
    /\ UNCHANGED <<path, pretty, profile_module, fit_module, fit_objects,
                   success, idx, outDir, files, attempted, failed, lastWrite,
                   stderr, dirCreated, run>>

\* The tool is run again with the same output directory.
NewRun(pretties) ==
    /\ pc = "exited"
    /\ run < MaxRuns
    /\ run' = run + 1
    /\ pc' = Steps[1]
    /\ path' \in PathKinds
    /\ pretty' \in pretties
    /\ profile_module' = Unset
    /\ fit_module' = Unset
    /\ fit_objects' = EmptyDict
    /\ success' = TRUE
    /\ idx' = 1
    /\ attempted' = {}
    /\ failed' = {}
    /\ lastWrite' = NoWrite
    /\ stderr' = {}
    /\ exitCode' = NotExited
    /\ raised' = "none"
    /\ dirCreated' = FALSE
    /\ UNCHANGED <<outDir, files>>

Next ==
    \/ FindProfile(Values)
    \/ CheckProfile
    \/ FindFit(Values)
    \/ Extract
    \/ MkDir
    \/ WriteProfile(IOOutcomes)
    \/ WriteFit(IOOutcomes)
    \/ LoopDone
    \/ Finish

\* One run of main() into an output directory with no output file in it.
Spec == Init /\ [][Next]_vars

\* The inputs of the runs of SpecRuns: every name a module defines holds None
\* or a serializable object, and a write succeeds or fails after truncating.
RunsValues == {None, Obj}
RunsIO == {"ok", "write_fails"}
RunsPretty == BOOLEAN

InitRuns ==
    /\ Init
    /\ pretty \in RunsPretty

NextRuns ==
    \/ FindProfile(RunsValues)
    \/ CheckProfile
    \/ FindFit(RunsValues)
    \/ Extract
    \/ MkDir
    \/ WriteProfile(RunsIO)
    \/ WriteFit(RunsIO)
    \/ LoopDone
    \/ Finish
    \/ NewRun(RunsPretty)

\* Successive runs of main() into the same output directory.
SpecRuns == InitRuns /\ [][NextRuns]_vars

(* ------------------------------ properties ----------------------------- *)

Exited == pc = "exited"
ProfileResolved == profile_module.state = "module"
FitResolved == fit_module.state = "module"
HasProfile == hasattr(profile_module, "Profile")
LoopOver == idx > Len(FitNames)
NoOutputFile == \A f \in OutputFiles : files[f] = NoFile
ResolutionError(module) == module.state \in {"None", "raised"}

NoProfileModuleMsg == <<"Error: Could not find or load profile module at", path>>
NoFitModuleMsg == <<"Error: Could not find or load fit module at", path>>
NoProfileObjectMsg ==
    <<"Error: The profile module does not contain a 'Profile' object", "">>

C2_FileIffNameExists ==
    (Exited /\ exitCode = 0 /\ ProfileResolved /\ FitResolved) =>
        /\ files[ProfileFile] # NoFile <=> HasProfile
        /\ \A i \in 1..Len(FitNames) :
              files[FitFileNames[i]] # NoFile <=> hasattr(fit_module, FitNames[i])

\* C3, as claimed: with profile.py (exposing Profile) but no fit.py in the
\* directory, the run writes profile.json and exits non-zero.
C3_ProfileWrittenThenFail_Claimed ==
    (Exited /\ path = "dir" /\ HasProfile /\ fit_module.state = "None") =>
        /\ files[ProfileFile] # NoFile
        /\ exitCode # 0

\* C3, amended: with profile.py (exposing Profile) but no fit.py in the
\* directory, the run exits non-zero without writing profile.json.
C3_NoFitNoProfileJson ==
    (Exited /\ path = "dir" /\ HasProfile /\ fit_module.state = "None") =>
        /\ ProfileFile \notin attempted
        /\ files[ProfileFile] = NoFile
        /\ exitCode # 0

C3_Witness ==
    /\ Exited
    /\ path = "dir"
    /\ HasProfile
    /\ fit_module.state = "None"
    /\ NoFitModuleMsg \in stderr

\* C4: when the profile module resolves without a Profile name, the run
\* exits non-zero with the diagnostic naming 'Profile', creates neither the
\* output directory nor any output file, and never loads the fit module.
C4_MissingProfileNoEffects ==
    (Exited /\ ProfileResolved /\ ~HasProfile) =>
        /\ exitCode # 0
        /\ NoProfileObjectMsg \in stderr
        /\ ~dirCreated
        /\ attempted = {}
        /\ NoOutputFile
        /\ fit_module = Unset

C4_Witness ==
    /\ Exited
    /\ ProfileResolved
    /\ ~HasProfile
    /\ outDir = "absent"

\* C5: once profile.json is written and the loop is over, a write was
\* attempted for every name in the extracted set, and the run exits 0
\* exactly when none of the attempted writes failed.
C5_EveryPresentNameAttempted ==
    LoopOver =>
        /\ \A i \in 1..Len(FitNames) :
              FitNames[i] \in DOMAIN fit_objects => FitFileNames[i] \in attempted
        /\ Exited => (exitCode = 0 <=> failed = {})

\* C6: when the write of profile.json fails the run has exited non-zero and
\* write_json_file was called for no other file.
C6_ProfileWriteFailureIsTerminal ==
    ProfileFile \in failed =>
        /\ Exited
        /\ exitCode = 1
        /\ attempted = {ProfileFile}

\* profile.json failed although a fit name is present with a writable value.
C6_Witness ==
    /\ ProfileFile \in failed
    /\ lastWrite.io = "open_fails"
    /\ \E k \in DOMAIN fit_objects : fit_objects[k] = Obj

\* C7: every resolution error, a load failure included, comes back from
\* find_module as None with no exception escaping, and the run then stops
\* with the tool's diagnostic, non-zero, before any output is written.
C7_ResolutionErrorIsNotFound ==
    /\ ResolutionError(profile_module) =>
          /\ profile_module.state = "None"
          /\ raised = "none"
          /\ NoProfileModuleMsg \in stderr
          /\ Exited /\ exitCode # 0 /\ attempted = {} /\ NoOutputFile
    /\ ResolutionError(fit_module) =>
          /\ fit_module.state = "None"
          /\ raised = "none"
          /\ NoFitModuleMsg \in stderr
          /\ Exited /\ exitCode # 0 /\ attempted = {} /\ NoOutputFile

C9_NoKeyMappedToNone ==
    /\ \A k \in DOMAIN fit_objects :
          hasattr(fit_module, k) /\ fit_objects[k] # None
    /\ \A i \in 1..Len(FitNames) :
          fit_files(fit_objects)[i].data = None
              <=> FitNames[i] \notin DOMAIN fit_objects

\* C10: no step of any run deletes an output file, a step changes only the
\* file write_json_file is being called for, and the file of a fit name the
\* fit module does not define is never changed.
C10_FrameAcrossRuns ==
    [][\A f \in OutputFiles :
          /\ files[f] # NoFile => files'[f] # NoFile
          /\ files'[f] # files[f] =>
                /\ f \in attempted' \ attempted
                /\ lastWrite'.file = f
          /\ \A i \in 1..Len(FitNames) :
                (f = FitFileNames[i] /\ ~hasattr(fit_module, FitNames[i]))
                    => files'[f] = files[f]]_vars

\* After a later run that succeeded, the directory still holds the complete
\* file of a fit name the current fit module does not define.
C10_Witness ==
    /\ run = 2
    /\ Exited
    /\ exitCode = 0
    /\ \E i \in 1..Len(FitNames) :
          /\ ~hasattr(fit_module, FitNames[i])
          /\ files[FitFileNames[i]] \notin {NoFile, Truncated}
====
